---- MODULE Spec2Model ----
(***************************************************************************)
(* A model of the VantaAPI client of src/vanta/api.py.                     *)
(*                                                                         *)
(* One client object is shared by the callers in Threads.  Its state is    *)
(* the stored token (api_key), the header dictionary (headers) and the     *)
(* RateLimiter built at api.py:23.  Every call of _make_request is a frame *)
(* on its caller's stack: the retry of api.py:69 is a nested call made     *)
(* inside the `with self.rate_limiter:` block of the frame that got the    *)
(* 401, so a frame's __exit__ runs only after the frames above it ended.   *)
(*                                                                         *)
(* `with self.rate_limiter:` (api.py:60) runs RateLimiter.__enter__ and    *)
(* RateLimiter.__exit__ of the ratelimiter package imported at api.py:2:   *)
(*   __enter__: with self._lock: if len(self.calls) >= self.max_calls:     *)
(*                  sleep(period - self._timespan) when that is positive   *)
(*   __exit__ : with self._lock: self.calls.append(time.time());           *)
(*                  while self._timespan >= self.period:                   *)
(*                      self.calls.popleft()                               *)
(*   _timespan: self.calls[-1] - self.calls[0]                             *)
(* The limiter only ever uses differences of time stamps, so the deque is  *)
(* kept as the offsets calls[-1] - calls[i], together with the time since  *)
(* the newest entry (sinceLast, which matters only below Period).  Time    *)
(* can then advance for ever in a finite state space.                      *)
(*                                                                         *)
(* The server is arbitrary: it may answer any request with any status and  *)
(* any body, or not at all (a network failure).                            *)
(***************************************************************************)
EXTENDS Integers, Sequences, FiniteSets, TLC

(***************************************************************************)
(* Bounds of the model.  MaxCalls and Period stand for max_calls = 50 and  *)
(* period = 60 of api.py:23, scaled down; one clock tick is one time unit. *)
(***************************************************************************)
MaxCalls == 2
Period == 2
NumThreads == 2
NumCalls == 2
MaxDepth == 3
MaxPages == 3
MaxPageLen == 2

Threads == 1..NumThreads

VARIABLES
    api_key,      \* self.api_key: the stored token (0: minted at construction)
    headers,      \* self.headers
    calls,        \* rate_limiter.calls, as offsets from its newest entry
    sinceLast,    \* time since the newest entry of calls, capped at Period
    lockHolder,   \* rate_limiter._lock: the thread holding it, 0 when free
    minted,       \* number of tokens the token endpoint has issued to refreshes
    stack,        \* per caller: the frames of _make_request, innermost last
    outcome,      \* per caller: what the last finished top-level call gave
    callsLeft,    \* per caller: top-level calls it may still start
    pager,        \* per caller: the locals of get_all_organizations
    log,          \* history: the events of the caller's current top-level call
    admitted,     \* history: ages of the admissions younger than Period
    refreshDone,  \* history: some 401-triggered refresh has completed
    construction  \* history: the arguments of VantaAPI(...), what it raised

vars == <<api_key, headers, calls, sinceLast, lockHolder, minted, stack,
          outcome, callsLeft, pager, log, admitted, refreshDone,
          construction>>

---------------------------------------------------------------------------
(* Values *)

None == [tag |-> "None"]

NoRet == [kind |-> "none"]
Value(v) == [kind |-> "value", val |-> v]
Error(exc, status, content) ==
    [kind |-> "error", exc |-> exc, status |-> status, content |-> content]

\* f"Bearer {self.api_key}" (api.py:26, api.py:68)
Bearer(token) == <<"Bearer", token>>

\* The token a header value carries.
TokenOf(auth) == auth[2]

\* A JSON object of a list endpoint: data and pageInfo may each be missing.
Object(hasData, data, hasPageInfo, hasNextPage, endCursor) ==
    [tag |-> "object", hasData |-> hasData, data |-> data,
     hasPageInfo |-> hasPageInfo, hasNextPage |-> hasNextPage,
     endCursor |-> endCursor]

\* The empty JSON object {}.
EmptyObject == Object(FALSE, <<>>, FALSE, "absent", 0)

\* Response bodies: no content, JSON text, or text that is no JSON.
NoContent == <<>>
JsonText(v) == <<"json", v>>
Garbage == <<"garbage">>
ErrContent == JsonText([tag |-> "error"])

\* response.json() (api.py:64): the value of a JSON text, and
\* JSONDecodeError for any other text.
ParseJson(content) ==
    IF content # <<>> /\ content[1] = "json"
    THEN Value(content[2])
    ELSE Error("JSONDecodeError", 0, content)

\* response.raise_for_status() (api.py:63) raises HTTPError for 4xx and 5xx.
RaisesForStatus(status) == status >= 400 /\ status < 600

---------------------------------------------------------------------------
(* Requests *)

Req(method, endpoint, data, params) ==
    [method |-> method, endpoint |-> endpoint, data |-> data, params |-> params]

\* params: 0 stands for a key that is not in the dictionary.
NoParams == [pageSize |-> 0, pageCursor |-> 0]

base_url == "https://api.vanta.com/v1"

\* f"{self.base_url}/{endpoint}" (api.py:59)
Url(endpoint) == <<base_url>> \o endpoint

get_organizations(params) == Req("GET", <<"organizations">>, "None", params)
create_organization(data) == Req("POST", <<"organizations">>, data, NoParams)
delete_organization(org_id) ==
    Req("DELETE", <<"organizations", org_id>>, "None", NoParams)

\* The calls a caller of the facade issues in the model.
FacadeCalls ==
    {get_organizations(NoParams), create_organization("org"),
     delete_organization(1)}

---------------------------------------------------------------------------
(* The server *)

\* The answers with which a request fails: no answer at all (a network
\* failure), or a 4xx or 5xx status.
ErrorAnswers ==
    {[kind |-> "neterr"]}
    \cup {[kind |-> "resp", status |-> s, content |-> ErrContent] :
            s \in {401, 429, 500}}

\* What the API may answer to a request of the facade: a failure, or a
\* status that raises nothing, with no body, a JSON body or another body.
PlainAnswers ==
    ErrorAnswers
    \cup {[kind |-> "resp", status |-> s, content |-> c] :
            s \in {200, 304}, c \in {NoContent, JsonText(EmptyObject), Garbage}}

\* The records of page k, m of them.
Records(k, m) == [j \in 1..m |-> <<k, j>>]

\* The bodies the list endpoint may answer a request for page k with.  The
\* cursor of page k is k; has-more is answered below the model's bound on
\* the number of pages only.
PageBodies(k) ==
    {NoContent, Garbage, JsonText(None)}
    \cup {JsonText(Object(hasData, Records(k, IF hasData THEN m ELSE 0),
                          pi[1], pi[2], pi[3])) :
            hasData \in BOOLEAN, m \in 0..MaxPageLen,
            pi \in {<<FALSE, "absent", 0>>, <<TRUE, "absent", k>>,
                    <<TRUE, "false", k>>}
                   \cup (IF k < MaxPages
                         THEN {<<TRUE, "true", k>>, <<TRUE, "true", 0>>}
                         ELSE {})}

\* The page a request of the pager asks for: the one after its cursor.
PageOf(req) == req.params.pageCursor + 1

\* What the API may answer to a request of the pager for page k.
PagedAnswers(k) ==
    ErrorAnswers
    \cup {[kind |-> "resp", status |-> 200, content |-> c] : c \in PageBodies(k)}

\* The same with pages of one record at most.
ShortPagedAnswers(k) ==
    {a \in PagedAnswers(k) :
       (/\ a.kind = "resp"
        /\ a.status = 200
        /\ a.content # NoContent
        /\ a.content[1] = "json"
        /\ a.content[2].tag = "object")
       => Len(a.content[2].data) <= 1}

\* The answers of a server that is brief: a success without content, or a
\* 401.
BriefAnswers ==
    {[kind |-> "resp", status |-> 200, content |-> NoContent],
     [kind |-> "resp", status |-> 401, content |-> ErrContent]}

\* The answers of PlainAnswers, and a 204, with and without a body.
FullAnswers ==
    PlainAnswers
    \cup {[kind |-> "resp", status |-> 204, content |-> c] :
            c \in {NoContent, JsonText(EmptyObject)}}

\* The answers of the server in each specification.
ServerAnswers(server, req) ==
    IF server = "paged" THEN PagedAnswers(PageOf(req))
    ELSE IF server = "short" THEN ShortPagedAnswers(PageOf(req))
    ELSE IF server = "brief" THEN BriefAnswers
    ELSE IF server = "full" THEN FullAnswers
    ELSE PlainAnswers

\* The nesting bound: a 401 is answered to a call only below it.  The brief
\* server answers 401 to a call once, and never to its retry.
DepthBound(server) == IF server = "brief" THEN 2 ELSE MaxDepth

\* What the token endpoint may answer to one exchange.
TokenAnswers ==
    {[status |-> 200, hasToken |-> TRUE], [status |-> 200, hasToken |-> FALSE],
     [status |-> 401, hasToken |-> FALSE]}

\* The same, and a status that raises nothing and is no success.
AllTokenAnswers ==
    TokenAnswers
    \cup {[status |-> 304, hasToken |-> TRUE], [status |-> 304, hasToken |-> FALSE]}

\* The answers of the token endpoint in each specification.
TokenEndpoint(server) == IF server = "full" THEN AllTokenAnswers ELSE TokenAnswers

---------------------------------------------------------------------------
(* Frames *)

Frame(req) ==
    [pc |-> "enter", req |-> req, ret |-> NoRet, sleep |-> 0, tok |-> 0,
     hdr |-> <<>>]

Depth(t) == Len(stack[t])
Top(t) == stack[t][Depth(t)]
SetTop(t, f) == [stack EXCEPT ![t] = [@ EXCEPT ![Depth(t)] = f]]
At(t, pc) == Depth(t) > 0 /\ Top(t).pc = pc

Event(t, e) == [log EXCEPT ![t] = Append(@, e)]

---------------------------------------------------------------------------
(* The rate limiter *)

\* RateLimiter._timespan: calls[-1] - calls[0].
Timespan(cs) == cs[1]

\* The loop of RateLimiter.__exit__: drop the oldest entries until the
\* time span is below the period.
RECURSIVE PopOld(_)
PopOld(cs) == IF Timespan(cs) >= Period THEN PopOld(Tail(cs)) ELSE cs

\* RateLimiter.__exit__: append the time of the exit, then drop old entries.
AppendNow(cs, since) == PopOld([i \in 1..Len(cs) |-> cs[i] + since] \o <<0>>)

\* RateLimiter.__enter__: the time to sleep before the call is admitted.
SleepTime(cs) ==
    IF Len(cs) >= MaxCalls
    THEN IF Period - Timespan(cs) > 0 THEN Period - Timespan(cs) ELSE 0
    ELSE 0

\* The call of thread t is admitted: __enter__ returns, the body of the
\* with block starts.
Admit(t) ==
    /\ stack' = SetTop(t, [Top(t) EXCEPT !.pc = "send", !.sleep = 0])
    /\ admitted' = Append(admitted, 0)
    /\ log' = Event(t, [ev |-> "admit", depth |-> Depth(t),
                        waited |-> Top(t).pc = "sleep"])

\* A limiter that turns away the call that finds the quota used up.
EnterRejects(t) ==
    /\ At(t, "enter")
    /\ lockHolder = 0
    /\ IF SleepTime(calls) > 0
       THEN /\ stack' = SetTop(t, [Top(t) EXCEPT
                           !.pc = "exit",
                           !.ret = Error("RateLimitExceeded", 0, NoContent)])
            /\ UNCHANGED <<admitted, log>>
       ELSE Admit(t)
    /\ UNCHANGED <<construction, api_key, headers, calls, sinceLast, lockHolder, minted,
                   outcome, callsLeft, pager, refreshDone>>

\* A limiter that admits no call of a thread while an acquisition of that
\* thread is open.
EnterNotReentrant(t) ==
    /\ At(t, "enter")
    /\ Depth(t) = 1
    /\ lockHolder = 0
    /\ IF SleepTime(calls) > 0
       THEN /\ lockHolder' = t
            /\ stack' = SetTop(t, [Top(t) EXCEPT !.pc = "sleep",
                                                 !.sleep = SleepTime(calls)])
            /\ UNCHANGED <<admitted, log>>
       ELSE /\ Admit(t)
            /\ UNCHANGED lockHolder
    /\ UNCHANGED <<construction, api_key, headers, calls, sinceLast, minted,
                   outcome, callsLeft, pager, refreshDone>>

\* with self.rate_limiter: __enter__ takes the limiter's lock and either
\* returns at once or starts to sleep, holding the lock (api.py:60).
Enter(t) ==
    /\ At(t, "enter")
    /\ lockHolder = 0
    /\ IF SleepTime(calls) > 0
       THEN /\ lockHolder' = t
            /\ stack' = SetTop(t, [Top(t) EXCEPT !.pc = "sleep",
                                                 !.sleep = SleepTime(calls)])
            /\ UNCHANGED <<admitted, log>>
       ELSE /\ Admit(t)
            /\ UNCHANGED lockHolder
    /\ UNCHANGED <<construction, api_key, headers, calls, sinceLast, minted, outcome,
                   callsLeft, pager, refreshDone>>

\* The sleep of __enter__ is over: the lock is released and the call admitted.
Wake(t) ==
    /\ At(t, "sleep")
    /\ Top(t).sleep = 0
    /\ lockHolder' = 0
    /\ Admit(t)
    /\ UNCHANGED <<construction, api_key, headers, calls, sinceLast, minted, outcome,
                   callsLeft, pager, refreshDone>>

\* One unit of time passes.
Tick ==
    /\ sinceLast' = IF sinceLast < Period THEN sinceLast + 1 ELSE Period
    /\ admitted' = SelectSeq([i \in 1..Len(admitted) |-> admitted[i] + 1],
                             LAMBDA a : a < Period)
    /\ stack' = [t \in Threads |->
                   [i \in 1..Len(stack[t]) |->
                      IF stack[t][i].sleep > 0
                      THEN [stack[t][i] EXCEPT !.sleep = @ - 1]
                      ELSE stack[t][i]]]
    /\ UNCHANGED <<construction, api_key, headers, calls, lockHolder, minted, outcome,
                   callsLeft, pager, log, refreshDone>>

---------------------------------------------------------------------------
(* _make_request *)

\* requests.request(method, url, headers=self.headers, json=data,
\* params=params) (api.py:62): the request leaves with the headers of now.
Sent(t) ==
    [ev |-> "send", depth |-> Depth(t), method |-> Top(t).req.method,
     url |-> Url(Top(t).req.endpoint), data |-> Top(t).req.data,
     params |-> Top(t).req.params, auth |-> headers.Authorization,
     afterRefresh |-> refreshDone]

Send(t) ==
    /\ At(t, "send")
    /\ stack' = SetTop(t, [Top(t) EXCEPT !.pc = "wait"])
    /\ log' = Event(t, Sent(t))
    /\ UNCHANGED <<construction, api_key, headers, calls, sinceLast, lockHolder, minted,
                   outcome, callsLeft, pager, admitted, refreshDone>>

\* A return that parses the body whether or not there is one.
OnSuccessAlwaysParses(f, a) ==
    [f EXCEPT !.pc = "exit", !.ret = ParseJson(a.content)]

\* return response.json() if response.content else None (api.py:64)
OnSuccess(f, a) ==
    [f EXCEPT !.pc = "exit",
              !.ret = IF a.content # NoContent
                      THEN ParseJson(a.content)
                      ELSE Value(None)]

\* A handler that treats a 429 as it treats a 401.
OnHTTPErrorRetries429(f, a) ==
    IF a.status = 401 \/ a.status = 429
    THEN [f EXCEPT !.pc = "refresh"]
    ELSE [f EXCEPT !.pc = "exit",
                   !.ret = Error("HTTPError", a.status, a.content)]

\* except requests.exceptions.HTTPError (api.py:65-73)
OnHTTPError(f, a) ==
    IF a.status = 401
    THEN [f EXCEPT !.pc = "refresh"]
    ELSE IF a.status = 429
    THEN [f EXCEPT !.pc = "exit",
                   !.ret = Error("RateLimitExceeded", 0, NoContent)]
    ELSE [f EXCEPT !.pc = "exit",
                   !.ret = Error("HTTPError", a.status, a.content)]

\* A handler that catches every exception of the request, so that a network
\* failure takes the path of the 401.
OnAnswerCatchesAll(f, a) ==
    IF a.kind = "neterr"
    THEN [f EXCEPT !.pc = "refresh"]
    ELSE IF RaisesForStatus(a.status)
    THEN OnHTTPError(f, a)
    ELSE OnSuccess(f, a)

\* The frame a response leaves behind (api.py:62-73): where it goes on, and
\* what it will return or raise.  An exception of requests.request that is
\* no HTTPError (a network failure) is not caught.
OnAnswer(f, a) ==
    IF a.kind = "neterr"
    THEN [f EXCEPT !.pc = "exit", !.ret = Error("ConnectionError", 0, NoContent)]
    ELSE IF RaisesForStatus(a.status)
    THEN OnHTTPError(f, a)
    ELSE OnSuccess(f, a)

\* The server answers the request in flight.  A 401 is answered only below
\* the model's nesting bound.
Recv(t, server) ==
    /\ At(t, "wait")
    /\ \E a \in ServerAnswers(server, Top(t).req) :
         /\ (a.kind = "resp" /\ a.status = 401) => Depth(t) < DepthBound(server)
         /\ stack' = SetTop(t, OnAnswer(Top(t), a))
         /\ log' = Event(t, [ev |-> "answer", depth |-> Depth(t), answer |-> a])
    /\ UNCHANGED <<construction, api_key, headers, calls, sinceLast, lockHolder, minted,
                   outcome, callsLeft, pager, admitted, refreshDone>>

\* An exchange that does not look at the status of the answer.
get_access_tokenUnchecked(a, n) ==
    IF ~a.hasToken
    THEN Error("KeyError", 0, NoContent)
    ELSE Value(n + 1)

\* _get_access_token (api.py:37-46) on the token endpoint's answer, when the
\* endpoint has issued `n` tokens before: the token, or what is raised.
get_access_token(a, n) ==
    IF RaisesForStatus(a.status)
    THEN Error("HTTPError", a.status, ErrContent)
    ELSE IF ~a.hasToken
    THEN Error("KeyError", 0, NoContent)
    ELSE Value(n + 1)

\* A refresh that swallows the failure of the exchange and goes on with
\* the token it has.
ExchangeSwallowsFailure(t, server) ==
    /\ At(t, "refresh")
    /\ \E a \in TokenEndpoint(server) :
         LET r == get_access_token(a, minted) IN
         /\ log' = Event(t, [ev |-> "exchange", depth |-> Depth(t),
                             answer |-> a, result |-> r])
         /\ minted' = IF r.kind = "value" THEN minted + 1 ELSE minted
         /\ stack' = SetTop(t, [Top(t) EXCEPT
                           !.pc = "assign",
                           !.tok = IF r.kind = "value" THEN r.val ELSE api_key])
    /\ UNCHANGED <<construction, api_key, headers, calls, sinceLast, lockHolder,
                   outcome, callsLeft, pager, admitted, refreshDone>>

\* self._get_access_token() of api.py:67: the exchange with the token endpoint.
Exchange(t, server) ==
    /\ At(t, "refresh")
    /\ \E a \in TokenEndpoint(server) :
         LET r == get_access_token(a, minted) IN
         /\ log' = Event(t, [ev |-> "exchange", depth |-> Depth(t),
                             answer |-> a, result |-> r])
         /\ IF r.kind = "value"
            THEN /\ minted' = minted + 1
                 /\ stack' = SetTop(t, [Top(t) EXCEPT !.pc = "assign",
                                                      !.tok = r.val])
            ELSE /\ minted' = minted
                 /\ stack' = SetTop(t, [Top(t) EXCEPT !.pc = "exit", !.ret = r])
    /\ UNCHANGED <<construction, api_key, headers, calls, sinceLast, lockHolder, outcome,
                   callsLeft, pager, admitted, refreshDone>>

\* self.api_key = <the token returned> (api.py:67)
Assign(t) ==
    /\ At(t, "assign")
    /\ api_key' = Top(t).tok
    /\ stack' = SetTop(t, [Top(t) EXCEPT !.pc = "sethdr"])
    /\ UNCHANGED <<construction, headers, calls, sinceLast, lockHolder, minted, outcome,
                   callsLeft, pager, log, admitted, refreshDone>>

\* A retry that passes on only the method and the endpoint.
RetryReqDropsArgs(req) == Req(req.method, req.endpoint, "None", NoParams)

\* A retry that passes on the params without the cursor.
RetryReqDropsCursor(req) ==
    Req(req.method, req.endpoint, req.data, [req.params EXCEPT !.pageCursor = 0])

\* The request of the retry (api.py:69): the arguments of this call again.
RetryReq(req) == Req(req.method, req.endpoint, req.data, req.params)

\* A refresh that leaves the header as it was.
NewAuthorizationStale(f) == headers.Authorization

\* self.headers["Authorization"] = f"Bearer {self.api_key}" (api.py:68)
NewAuthorization(f) == Bearer(api_key)

\* f"Bearer {self.api_key}" of api.py:68 is evaluated: the stored token is
\* read.  Another thread may run between this and the store into the
\* dictionary.
Format(t) ==
    /\ At(t, "sethdr")
    /\ stack' = SetTop(t, [Top(t) EXCEPT !.pc = "store",
                                         !.hdr = NewAuthorization(Top(t))])
    /\ UNCHANGED <<construction, api_key, headers, calls, sinceLast, lockHolder,
                   minted, outcome, callsLeft, pager, log, admitted,
                   refreshDone>>

\* api.py:68-69: the header is stored and _make_request calls itself.
Retry(t) ==
    /\ At(t, "store")
    /\ headers' = [headers EXCEPT !.Authorization = Top(t).hdr]
    /\ refreshDone' = TRUE
    /\ stack' = [stack EXCEPT ![t] =
                   Append([@ EXCEPT ![Depth(t)].pc = "retry"],
                          Frame(RetryReq(Top(t).req)))]
    /\ log' = Event(t, [ev |-> "sethdr", depth |-> Depth(t),
                        auth |-> Top(t).hdr])
    /\ UNCHANGED <<construction, api_key, calls, sinceLast, lockHolder, minted,
                   outcome, callsLeft, pager, admitted>>

\* The with block is left, by return or by exception: __exit__ records the
\* time under the limiter's lock, and the frame hands its result to its
\* caller (the frame below, which then leaves its own with block, or the
\* caller of the top-level call).
Exit(t) ==
    /\ At(t, "exit")
    /\ lockHolder = 0
    /\ calls' = AppendNow(calls, sinceLast)
    /\ sinceLast' = 0
    /\ log' = Event(t, [ev |-> "return", depth |-> Depth(t), ret |-> Top(t).ret])
    /\ IF Depth(t) > 1
       THEN /\ stack' = [stack EXCEPT ![t] =
                           [SubSeq(@, 1, Depth(t) - 1) EXCEPT
                              ![Depth(t) - 1].pc = "exit",
                              ![Depth(t) - 1].ret = Top(t).ret]]
            /\ UNCHANGED outcome
       ELSE /\ stack' = [stack EXCEPT ![t] = <<>>]
            /\ outcome' = [outcome EXCEPT ![t] = Top(t).ret]
    /\ UNCHANGED <<construction, api_key, headers, lockHolder, minted, callsLeft, pager,
                   admitted, refreshDone>>

\* A caller starts a call of the facade, which calls _make_request.
StartCall(t, reqs) ==
    /\ Depth(t) = 0
    /\ pager[t].pc = "idle"
    /\ callsLeft[t] > 0
    /\ \E req \in reqs :
         /\ stack' = [stack EXCEPT ![t] = <<Frame(req)>>]
         /\ log' = [log EXCEPT ![t] = <<[ev |-> "call", req |-> req]>>]
    /\ callsLeft' = [callsLeft EXCEPT ![t] = @ - 1]
    /\ outcome' = [outcome EXCEPT ![t] = NoRet]
    /\ UNCHANGED <<construction, api_key, headers, calls, sinceLast, lockHolder, minted,
                   pager, admitted, refreshDone>>

---------------------------------------------------------------------------
(* Specifications *)

\* The locals of get_all_organizations, and the history of its run: the
\* calls of _make_request it made (ncalls), the requests they sent (nsent),
\* the answers they got (nanswers), the responses they returned (served).
IdlePager == [pc |-> "idle", params |-> NoParams, results |-> <<>>,
              raised |-> NoRet, ncalls |-> 0, nsent |-> 0, nanswers |-> 0,
              served |-> <<>>]

\* VantaAPI(client_id, client_secret): the arguments __init__ takes
\* (api.py:12).  base_url keeps its default.
TokenModeArgs == [client_id |-> TRUE, client_secret |-> TRUE, api_key |-> "absent"]

\* The client after __init__ (api.py:20-28): the token of the first exchange
\* is stored and in the header, the limiter has recorded no call.
InitWith(budget) ==
    /\ api_key = 0
    /\ headers = [Authorization |-> Bearer(0), ContentType |-> "application/json"]
    /\ calls = <<>>
    /\ sinceLast = 0
    /\ lockHolder = 0
    /\ minted = 0
    /\ stack = [t \in Threads |-> <<>>]
    /\ outcome = [t \in Threads |-> NoRet]
    /\ callsLeft = budget
    /\ pager = [t \in Threads |-> IdlePager]
    /\ log = [t \in Threads |-> <<>>]
    /\ admitted = <<>>
    /\ refreshDone = FALSE
    /\ construction = [args |-> TokenModeArgs, raised |-> NoRet]

\* One caller (the first) with NumCalls calls to make.
Init == InitWith([t \in Threads |-> IF t = 1 THEN NumCalls ELSE 0])

\* Concurrent callers: the first with two calls to make, the others with
\* one call each.
ConcInit == InitWith([t \in Threads |-> IF t = 1 THEN 2 ELSE 1])

\* Concurrent callers with one call each.
RaceInit == InitWith([t \in Threads |-> 1])

\* The steps of _make_request for caller t.
RequestStep(t, server) ==
    \/ Enter(t)
    \/ Wake(t)
    \/ Send(t)
    \/ Recv(t, server)
    \/ Exchange(t, server)
    \/ Assign(t)
    \/ Format(t)
    \/ Retry(t)
    \/ Exit(t)

\* One caller issuing calls one after the other.
Next ==
    \/ Tick
    \/ StartCall(1, FacadeCalls)
    \/ RequestStep(1, "plain")

Spec == Init /\ [][Next]_vars

---------------------------------------------------------------------------
(* get_all_organizations *)

\* The page sizes a caller passes; 100 is the default (api.py:85).
PageSizes == {MaxPageLen, 100}

\* `not response` (api.py:96): None and the empty object are false.
Falsy(response) ==
    \/ response.tag = "None"
    \/ (response.tag = "object" /\ ~response.hasData /\ ~response.hasPageInfo)

\* A test of the last page that looks at the has-more flag only when it is
\* there, and takes its absence for more pages.
LastPageWhenFlagFalse(response) ==
    response.hasPageInfo /\ response.hasNextPage = "false"

\* A test of the last page that never finds it.
LastPageNever(response) == FALSE

\* `"pageInfo" not in response or not response["pageInfo"].get("hasNextPage")`
\* (api.py:99)
LastPage(response) ==
    ~response.hasPageInfo \/ response.hasNextPage # "true"

\* A loop body that keeps the records of the newest page only.
PagerStepKeepsNewest(p, response) ==
    IF Falsy(response) \/ ~response.hasData
    THEN [p EXCEPT !.pc = "returned"]
    ELSE LET q == [p EXCEPT !.results = response.data] IN
         IF LastPage(response)
         THEN [q EXCEPT !.pc = "returned"]
         ELSE IF response.endCursor = 0
         THEN [q EXCEPT !.pc = "raised",
                        !.raised = Error("KeyError", 0, NoContent)]
         ELSE [q EXCEPT !.pc = "loop",
                        !.params.pageCursor = response.endCursor]

\* A loop body that takes a cursor only while it has none.
PagerStepKeepsFirstCursor(p, response) ==
    IF Falsy(response) \/ ~response.hasData
    THEN [p EXCEPT !.pc = "returned"]
    ELSE LET q == [p EXCEPT !.results = @ \o response.data] IN
         IF LastPage(response)
         THEN [q EXCEPT !.pc = "returned"]
         ELSE IF response.endCursor = 0
         THEN [q EXCEPT !.pc = "raised",
                        !.raised = Error("KeyError", 0, NoContent)]
         ELSE [q EXCEPT !.pc = "loop",
                        !.params.pageCursor =
                           IF @ = 0 THEN response.endCursor ELSE @]

\* One pass of the loop body after the call (api.py:96-101), on the value
\* the call returned.
PagerStep(p, response) ==
    IF Falsy(response) \/ ~response.hasData
    THEN [p EXCEPT !.pc = "returned"]
    ELSE LET q == [p EXCEPT !.results = @ \o response.data] IN
         IF LastPage(response)
         THEN [q EXCEPT !.pc = "returned"]
         ELSE IF response.endCursor = 0
         THEN [q EXCEPT !.pc = "raised",
                        !.raised = Error("KeyError", 0, NoContent)]
         ELSE [q EXCEPT !.pc = "loop",
                        !.params.pageCursor = response.endCursor]

\* get_all_organizations(page_size) is called (api.py:92-93).
StartPager(t) ==
    /\ Depth(t) = 0
    /\ pager[t].pc = "idle"
    /\ callsLeft[t] > 0
    /\ \E page_size \in PageSizes :
         pager' = [pager EXCEPT ![t] =
                     [IdlePager EXCEPT !.pc = "loop",
                                       !.params.pageSize = page_size]]
    /\ callsLeft' = [callsLeft EXCEPT ![t] = 0]
    /\ outcome' = [outcome EXCEPT ![t] = NoRet]
    /\ log' = [log EXCEPT ![t] = <<>>]
    /\ UNCHANGED <<construction, api_key, headers, calls, sinceLast, lockHolder, minted,
                   stack, admitted, refreshDone>>

\* response = self._make_request("GET", "organizations", params=params)
\* (api.py:95): the call starts.
PagerCall(t) ==
    /\ Depth(t) = 0
    /\ pager[t].pc = "loop"
    /\ stack' = [stack EXCEPT ![t] = <<Frame(get_organizations(pager[t].params))>>]
    /\ log' = [log EXCEPT ![t] =
                 <<[ev |-> "call", req |-> get_organizations(pager[t].params)]>>]
    /\ pager' = [pager EXCEPT ![t].pc = "waiting", ![t].ncalls = @ + 1]
    /\ outcome' = [outcome EXCEPT ![t] = NoRet]
    /\ UNCHANGED <<construction, api_key, headers, calls, sinceLast, lockHolder, minted,
                   callsLeft, admitted, refreshDone>>

\* A traversal that takes a failed call for the end of the pages and
\* returns what it has collected.
PagerCheckSwallows(t) ==
    /\ Depth(t) = 0
    /\ pager[t].pc = "waiting"
    /\ outcome[t].kind # "none"
    /\ pager' = [pager EXCEPT ![t] =
                   IF outcome[t].kind = "error"
                   THEN [@ EXCEPT !.pc = "returned"]
                   ELSE PagerStep([@ EXCEPT !.served = Append(@, outcome[t].val)],
                                  outcome[t].val)]
    /\ UNCHANGED <<construction, api_key, headers, calls, sinceLast, lockHolder,
                   minted, stack, outcome, callsLeft, log, admitted, refreshDone>>

\* The call has ended (api.py:95-101): an exception leaves
\* get_all_organizations, a value goes through the loop body.
PagerCheck(t) ==
    /\ Depth(t) = 0
    /\ pager[t].pc = "waiting"
    /\ outcome[t].kind # "none"
    /\ LET p == [pager[t] EXCEPT
                   !.nsent = @ + Len(SelectSeq(log[t], LAMBDA e : e.ev = "send")),
                   !.nanswers = @ + Len(SelectSeq(log[t],
                                                  LAMBDA e : e.ev = "answer"))]
       IN  pager' = [pager EXCEPT ![t] =
                       IF outcome[t].kind = "error"
                       THEN [p EXCEPT !.pc = "raised", !.raised = outcome[t]]
                       ELSE PagerStep([p EXCEPT !.served =
                                                  Append(@, outcome[t].val)],
                                      outcome[t].val)]
    /\ UNCHANGED <<construction, api_key, headers, calls, sinceLast, lockHolder, minted,
                   stack, outcome, callsLeft, log, admitted, refreshDone>>

\* Time passes while a caller sleeps in the rate limiter.
SleepTick ==
    /\ \E t \in Threads : At(t, "sleep") /\ Top(t).sleep > 0
    /\ Tick

\* One caller collecting all organizations.  Time is let pass only where a
\* traversal can tell: while its call sleeps in the rate limiter.
NextPager ==
    \/ SleepTick
    \/ StartPager(1)
    \/ PagerCall(1)
    \/ PagerCheck(1)
    \/ RequestStep(1, "paged")

PagerSpec == Init /\ [][NextPager]_vars

\* One caller collecting all organizations from a server with short pages.
NextShortPager ==
    \/ SleepTick
    \/ StartPager(1)
    \/ PagerCall(1)
    \/ PagerCheck(1)
    \/ RequestStep(1, "short")

\* The same with the scheduling of a running program: the caller's thread
\* goes on when it can, time advances while it sleeps, and the server
\* answers every request (with a response or a failure).
PagerFairSpec == Init /\ [][NextShortPager]_vars /\ WF_vars(NextShortPager)

\* Several callers sharing the client, their steps interleaved in any order.
NextConc ==
    \/ SleepTick
    \/ \E t \in Threads : StartCall(t, {get_organizations(NoParams)})
    \/ \E t \in Threads : RequestStep(t, "brief")

ConcSpec == ConcInit /\ [][NextConc]_vars

RaceSpec == RaceInit /\ [][NextConc]_vars

\* One caller of a brief server, time passing freely.
NextBrief ==
    \/ Tick
    \/ StartCall(1, {get_organizations(NoParams)})
    \/ RequestStep(1, "brief")

\* The same with the scheduling of a running thread: the limiter's steps
\* and the send are taken when they can be, and time advances.
FairSpec ==
    /\ Init
    /\ [][NextBrief]_vars
    /\ WF_vars(Tick)
    /\ WF_vars(Enter(1) \/ Wake(1) \/ Send(1))

---------------------------------------------------------------------------
(* Construction *)

\* The ways a caller writes VantaAPI(...): with the client credentials, with
\* api_key="dummy_key" alone (src/tests/test_api.py:6), or with both.
CtorArgs ==
    {TokenModeArgs,
     [client_id |-> FALSE, client_secret |-> FALSE, api_key |-> "dummy_key"],
     [client_id |-> TRUE, client_secret |-> TRUE, api_key |-> "dummy_key"]}

\* VantaAPI(**args) when the token endpoint answers `a` (api.py:12-28):
\* __init__ has no parameter api_key and needs client_id and client_secret,
\* so any other call raises TypeError before the body runs; the body
\* exchanges the credentials for the first token (api.py:24) and builds the
\* headers from it.
VantaAPI(args, a) ==
    IF args.api_key # "absent" \/ ~args.client_id \/ ~args.client_secret
    THEN Error("TypeError", 0, NoContent)
    ELSE LET r == get_access_token(a, -1) IN
         IF r.kind = "error"
         THEN r
         ELSE Value([api_key |-> r.val,
                     headers |-> [Authorization |-> Bearer(r.val),
                                  ContentType |-> "application/json"]])

\* No client: the construction raised, there is no object to call.
NoClient(args, r) ==
    /\ api_key = "unset"
    /\ headers = [Authorization |-> "unset", ContentType |-> "unset"]
    /\ calls = <<>>
    /\ sinceLast = 0
    /\ lockHolder = 0
    /\ minted = 0
    /\ stack = [t \in Threads |-> <<>>]
    /\ outcome = [t \in Threads |-> NoRet]
    /\ callsLeft = [t \in Threads |-> 0]
    /\ pager = [t \in Threads |-> IdlePager]
    /\ log = [t \in Threads |-> <<>>]
    /\ admitted = <<>>
    /\ refreshDone = FALSE
    /\ construction = [args |-> args, raised |-> r]

\* A caller constructs the client in one of the ways of CtorArgs, and then
\* has NumCalls calls to make if there is a client.
CtorInit ==
    \E args \in CtorArgs, a \in TokenAnswers :
      LET r == VantaAPI(args, a) IN
      IF r.kind = "error"
      THEN NoClient(args, r)
      ELSE /\ Init
           /\ construction.args = args
           /\ api_key = r.val.api_key
           /\ headers = r.val.headers

CtorSpec == CtorInit /\ [][NextBrief]_vars

---------------------------------------------------------------------------
(* Calls against the full server *)

\* One caller with two calls to make.
FullInit == InitWith([t \in Threads |-> IF t = 1 THEN 2 ELSE 0])

\* A call may be answered anything of FullAnswers, its token exchanges
\* anything of AllTokenAnswers.  Time is let pass only while the call
\* sleeps in the rate limiter.
NextFull ==
    \/ SleepTick
    \/ StartCall(1, FacadeCalls)
    \/ RequestStep(1, "full")

FullSpec == FullInit /\ [][NextFull]_vars

---------------------------------------------------------------------------
(* Reading the history *)

Events(t, kind) == SelectSeq(log[t], LAMBDA e : e.ev = kind)

\* The top-level call of caller t has ended and its result is with the caller.
Finished(t) == Depth(t) = 0 /\ outcome[t].kind # "none"

Is401(a) == a.kind = "resp" /\ a.status = 401
IsSuccess(a) == a.kind = "resp" /\ a.status \in 200..299

\* What the spec lets a successful response give: the parsed body, or None
\* for an empty one.
ResultOf(a) == IF a.content = NoContent THEN Value(None) ELSE ParseJson(a.content)

\* From event i of the log on, the call only unwinds: every later event is
\* the return of a frame, with result r, and r is what the frame on top
\* holds or what the caller got.
OnlyUnwinds(t, i, r) ==
    /\ \A j \in (i + 1)..Len(log[t]) :
         log[t][j].ev = "return" /\ log[t][j].ret = r
    /\ Depth(t) > 0 => (Top(t).pc = "exit" /\ Top(t).ret = r)
    /\ Depth(t) = 0 => outcome[t] = r

---------------------------------------------------------------------------
(* Claims *)

\* C1: when the first response of a call is a 401 and the next one a
\* success, the call made exactly one token exchange and sent exactly two
\* requests, both with the method, URL, data and params of the call, the
\* second with the token that exchange minted, and the caller gets the
\* result of the retry.
C1_RetryAfter401 ==
    \A t \in Threads :
      LET ans == Events(t, "answer")
          sends == Events(t, "send")
          exch == Events(t, "exchange")
          rets == Events(t, "return")
      IN  (/\ Finished(t)
           /\ Len(ans) >= 2
           /\ Is401(ans[1].answer)
           /\ IsSuccess(ans[2].answer))
          => /\ Len(exch) = 1
             /\ exch[1].result.kind = "value"
             /\ Len(sends) = 2
             /\ Len(ans) = 2
             /\ \A i \in 1..2 :
                  /\ sends[i].method = log[t][1].req.method
                  /\ sends[i].url = Url(log[t][1].req.endpoint)
                  /\ sends[i].data = log[t][1].req.data
                  /\ sends[i].params = log[t][1].req.params
             /\ sends[2].auth = Bearer(exch[1].result.val)
             /\ rets[1].depth = 2
             /\ outcome[t] = rets[1].ret
             /\ outcome[t] = ResultOf(ans[2].answer)

\* C1 witness: a POST with a body was answered 401, then 200 with JSON, and
\* the caller holds the parsed value.
C1_Witness ==
    /\ Finished(1)
    /\ log[1][1].req = create_organization("org")
    /\ Len(Events(1, "answer")) = 2
    /\ Is401(Events(1, "answer")[1].answer)
    /\ IsSuccess(Events(1, "answer")[2].answer)
    /\ outcome[1] = Value(EmptyObject)

\* C2: when the retry after a 401 is answered 401 too, the call sends no
\* third request and makes no second token exchange, and it ends in failure.
C2_NoThirdSend ==
    \A t \in Threads :
      LET ans == Events(t, "answer")
      IN  (Len(ans) >= 2 /\ Is401(ans[1].answer) /\ Is401(ans[2].answer))
          => /\ Len(Events(t, "send")) <= 2
             /\ Len(Events(t, "exchange")) <= 1
             /\ Finished(t) => outcome[t].kind = "error"

\* The call of caller t has got a 429.
Got429(t) ==
    \E i \in 1..Len(log[t]) :
      /\ log[t][i].ev = "answer"
      /\ log[t][i].answer.kind = "resp"
      /\ log[t][i].answer.status = 429

\* C3: after a 429 the call only unwinds with the rate-limit error: no
\* further request, no token exchange; and no step of a call that has got a
\* 429, the receipt of the 429 included, changes the stored token or the
\* headers.
C3_NoRetryOn429 ==
    /\ [](\A t \in Threads :
            \A i \in 1..Len(log[t]) :
              (/\ log[t][i].ev = "answer"
               /\ log[t][i].answer.kind = "resp"
               /\ log[t][i].answer.status = 429)
              => OnlyUnwinds(t, i, Error("RateLimitExceeded", 0, NoContent)))
    /\ [][\A t \in Threads :
            (Depth(t) > 0 /\ Got429(t)')
              => (api_key' = api_key /\ headers' = headers)]_vars

\* C3 witness: a call whose only request was answered 429 has failed with
\* the rate-limit error.
C3_Witness ==
    /\ Finished(1)
    /\ Len(Events(1, "send")) = 1
    /\ Events(1, "answer")[1].answer.kind = "resp"
    /\ Events(1, "answer")[1].answer.status = 429
    /\ outcome[1] = Error("RateLimitExceeded", 0, NoContent)

\* C4: at every moment, at most max_calls calls were admitted by the rate
\* limiter within the last period.
C4_WindowBound == Len(admitted) <= MaxCalls

\* C5: a call that has started to acquire its slot, at any nesting depth,
\* is eventually admitted and its request sent.
C5_EventuallySent ==
    \A d \in 1..MaxDepth :
      (Depth(1) = d /\ Top(1).pc \in {"enter", "sleep"})
        ~> (Depth(1) = d /\ Top(1).pc = "wait")

\* C5 witness: a call found the quota used up, waited, was admitted and sent.
C5_Witness ==
    \E i \in 1..Len(log[1]) :
      /\ log[1][i].ev = "admit"
      /\ log[1][i].waited
      /\ i < Len(log[1])
      /\ log[1][i + 1].ev = "send"

\* The failures of C8: a network failure, or a status in `statuses` other
\* than 401 and 429.
Surfaced(t, statuses) ==
    \A i \in 1..Len(log[t]) :
      LET e == log[t][i]
      IN  /\ (e.ev = "answer" /\ e.answer.kind = "neterr")
             => OnlyUnwinds(t, i, Error("ConnectionError", 0, NoContent))
          /\ (/\ e.ev = "answer"
              /\ e.answer.kind = "resp"
              /\ e.answer.status \in statuses \ {401, 429})
             => OnlyUnwinds(t, i, Error("HTTPError", e.answer.status,
                                        e.answer.content))

\* C8 as stated: after a network failure or any status that is not 2xx,
\* 401 or 429, the call only unwinds with that failure (status and body).
C8_AllNon2xxSurfaced ==
    \A t \in Threads : Surfaced(t, (100..599) \ (200..299))

\* C8 amended: the same for the statuses 400..599.
C8_ErrorsSurfaced ==
    \A t \in Threads : Surfaced(t, 400..599)

\* C8 witness: a call answered 500 has failed with that status and body,
\* after one request.
C8_Witness ==
    /\ Finished(1)
    /\ Len(Events(1, "send")) = 1
    /\ outcome[1] = Error("HTTPError", 500, ErrContent)

\* A page with records, the has-more flag set and a cursor.
HasMorePage(r) ==
    /\ r.tag = "object"
    /\ r.hasData
    /\ r.hasPageInfo
    /\ r.hasNextPage = "true"
    /\ r.endCursor # 0

\* A page with records and the has-more flag false.
FinalPage(r) ==
    /\ r.tag = "object"
    /\ r.hasData
    /\ r.hasPageInfo
    /\ r.hasNextPage = "false"

\* The records of a sequence of pages, in page order.
RECURSIVE Concat(_)
Concat(pages) ==
    IF pages = <<>> THEN <<>> ELSE Head(pages).data \o Concat(Tail(pages))

\* C6: as long as the server has answered nothing but pages with has-more
\* true, the traversal goes on from the newest cursor with all their
\* records; when the n-th page then has has-more false, it returns the
\* records of the n pages in page order, after n calls of _make_request and
\* n requests.
C6_CollectsAllPages ==
    \A t \in Threads :
      LET p == pager[t]
          n == Len(p.served)
      IN  (/\ n >= 1
           /\ p.nanswers = n
           /\ \A i \in 1..(n - 1) : HasMorePage(p.served[i]))
          => /\ HasMorePage(p.served[n])
                => /\ p.pc \in {"loop", "waiting"}
                   /\ p.results = Concat(p.served)
                   /\ p.params.pageCursor = p.served[n].endCursor
             /\ FinalPage(p.served[n])
                => /\ p.pc = "returned"
                   /\ p.results = Concat(p.served)
                   /\ p.ncalls = n
                   /\ p.nsent = n

\* C6 witness: 3 pages of 2 records each gave 6 records after 3 calls.
C6_Witness ==
    /\ pager[1].pc = "returned"
    /\ pager[1].ncalls = 3
    /\ Len(pager[1].served) = 3
    /\ \A i \in 1..3 :
         pager[1].served[i].tag = "object" /\ Len(pager[1].served[i].data) = 2
    /\ pager[1].results = <<<<1, 1>>, <<1, 2>>, <<2, 1>>, <<2, 2>>, <<3, 1>>, <<3, 2>>>>

\* A response at which the traversal is to stop: an empty one, one without
\* data, one without pagination metadata or one whose has-more is not true.
Stops(r) ==
    \/ r.tag = "None"
    \/ ~r.hasData
    \/ ~r.hasPageInfo
    \/ r.hasNextPage # "true"

\* C7: a response at which the traversal is to stop is the last one it
\* gets: it has returned, and made no call after the one answered so; when
\* the first response has no data, it returned the empty sequence after
\* one call.
C7_StopsAtFirstStop ==
    \A t \in Threads :
      LET p == pager[t]
          n == Len(p.served)
      IN  /\ \A i \in 1..n :
               Stops(p.served[i])
                 => (i = n /\ p.pc = "returned" /\ p.ncalls = n)
          /\ (n >= 1 /\ (p.served[1].tag = "None" \/ ~p.served[1].hasData))
               => (n = 1 /\ p.pc = "returned" /\ p.results = <<>> /\ p.ncalls = 1)

\* C7 witness: the second response had records but no pagination metadata,
\* and the traversal returned the records of both pages after two calls.
C7_Witness ==
    /\ pager[1].pc = "returned"
    /\ Len(pager[1].served) = 2
    /\ pager[1].served[2].tag = "object"
    /\ pager[1].served[2].hasData
    /\ ~pager[1].served[2].hasPageInfo
    /\ pager[1].ncalls = 2
    /\ Len(pager[1].results) = 3

\* The calls in flight: admitted by the limiter, their with block not left.
InFlight ==
    UNION {{<<t, i>> : i \in {j \in 1..Len(stack[t]) :
                                stack[t][j].pc \notin {"enter", "sleep"}}} :
           t \in Threads}

\* The calls completed within the last period: the limiter's own record.
CompletedInWindow == {i \in 1..Len(calls) : calls[i] + sinceLast < Period}

\* C9: with concurrent callers, the calls in flight or completed within the
\* last period are never more than max_calls.
C9_ConcurrentWindowBound ==
    Cardinality(InFlight) + Cardinality(CompletedInWindow) <= MaxCalls

\* C10: once a refresh has completed, every request sent carries a token
\* minted by a refresh, and the stored token and the header hold one.
C10_MintedTokenAfterRefresh ==
    /\ \A t \in Threads :
         \A i \in 1..Len(log[t]) :
           (log[t][i].ev = "send" /\ log[t][i].afterRefresh)
             => TokenOf(log[t][i].auth) \in 1..minted
    /\ refreshDone
         => (api_key \in 1..minted /\ TokenOf(headers.Authorization) \in 1..minted)

\* C10 witness: both callers got a 401 and refreshed, and the second sent
\* its retry with the token the first one's refresh minted.
C10_Witness ==
    /\ minted = 2
    /\ \E i \in 1..Len(log[1]) :
         /\ log[1][i].ev = "exchange"
         /\ log[1][i].result.kind = "value"
         /\ \E j \in 1..Len(log[2]) :
              /\ log[2][j].ev = "send"
              /\ log[2][j].afterRefresh
              /\ log[2][j].depth = 2
              /\ log[2][j].auth = Bearer(log[1][i].result.val)

\* C11: a client made with api_key=... exists, its Authorization header is
\* Bearer <api_key> at every moment, and no token exchange is ever made for
\* it.
C11_StaticKeyMode ==
    construction.args.api_key # "absent"
      => /\ construction.raised = NoRet
         /\ headers.Authorization = Bearer(construction.args.api_key)
         /\ minted = 0
         /\ \A t \in Threads : Events(t, "exchange") = <<>>

\* The exchanges of the call of caller t that have been made are as many as
\* the 401 answers it has handled: one request to the token endpoint for
\* each invocation of _get_access_token.
OneExchangePerInvocation(t) ==
    Len(Events(t, "exchange"))
      = Len(SelectSeq(Events(t, "answer"), LAMBDA e : Is401(e.answer)))
        - (IF At(t, "refresh") THEN 1 ELSE 0)

\* No step that makes a token exchange changes the stored token or the
\* headers.
ExchangeKeepsClient ==
    [][(\E t \in Threads : Len(Events(t, "exchange"))' > Len(Events(t, "exchange")))
         => (api_key' = api_key /\ headers' = headers)]_vars

C13_EmptyBodyGivesNone ==
    \A t \in Threads :
      \A i \in 1..Len(log[t]) :
        (log[t][i].ev = "answer" /\ IsSuccess(log[t][i].answer))
        => LET c == log[t][i].answer.content
           IN  /\ c = NoContent => OnlyUnwinds(t, i, Value(None))
               /\ (c # NoContent /\ c[1] = "json")
                    => OnlyUnwinds(t, i, Value(c[2]))

\* C13 witness: delete_organization was answered 204 with an empty body and
\* returned None.
C13_Witness ==
    /\ Finished(1)
    /\ log[1][1].req = delete_organization(1)
    /\ Len(Events(1, "answer")) = 1
    /\ Events(1, "answer")[1].answer
         = [kind |-> "resp", status |-> 204, content |-> NoContent]
    /\ outcome[1] = Value(None)

\* The calls of _make_request the traversal of caller t made that failed:
\* those made, less those that returned a response, less the one running.
FailedCalls(t) ==
    pager[t].ncalls - Len(pager[t].served)
      - (IF pager[t].pc = "waiting" THEN 1 ELSE 0)

\* C14: once a call of the traversal has failed, the traversal has ended by
\* raising what that call raised: it returned no list, and it made no call
\* after the failed one.
C14_PagerPropagates ==
    \A t \in Threads :
      FailedCalls(t) >= 1
        => /\ FailedCalls(t) = 1
           /\ Depth(t) = 0
           /\ pager[t].pc = "raised"
           /\ outcome[t].kind = "error"
           /\ pager[t].raised = outcome[t]

\* C14 witness: the first page gave records and has-more, the call for the
\* second page was answered 429, and the traversal raised the rate-limit
\* error after two calls.
C14_Witness ==
    /\ pager[1].pc = "raised"
    /\ pager[1].ncalls = 2
    /\ Len(pager[1].served) = 1
    /\ Len(pager[1].results) = 2
    /\ pager[1].raised = Error("RateLimitExceeded", 0, NoContent)

\* What a traversal that meets no 401 returns for the responses `pages`:
\* the records of those that have any, in order.
RECURSIVE Gathered(_)
Gathered(pages) ==
    IF pages = <<>> THEN <<>>
    ELSE (IF Head(pages).tag = "object" /\ Head(pages).hasData
          THEN Head(pages).data ELSE <<>>) \o Gathered(Tail(pages))

\* C15: whatever 401s the calls of a traversal met, the i-th response it
\* got is the server's page i, so that its records are those of the pages
\* 1..n in order, each once; every request of a call carries the params of
\* the call; and a call answered 401 and then 200 made one exchange and sent
\* two requests.
C15_PagerRecoversFrom401 ==
    \A t \in Threads :
      LET p == pager[t]
          ans == Events(t, "answer")
      IN  p.pc # "idle"
          => /\ \A i \in 1..Len(p.served) :
                  (p.served[i].tag = "object" /\ p.served[i].hasData)
                    => p.served[i].data = Records(i, Len(p.served[i].data))
             /\ p.results = Gathered(p.served)
             /\ \A i \in 1..Len(log[t]) :
                  log[t][i].ev = "send"
                    => log[t][i].params = log[t][1].req.params
             /\ (/\ Finished(t)
                 /\ Len(ans) = 2
                 /\ Is401(ans[1].answer)
                 /\ IsSuccess(ans[2].answer))
                => (Len(Events(t, "exchange")) = 1 /\ Len(Events(t, "send")) = 2)

\* C15 witness: two pages of two records, the request for the second one
\* answered 401 first: the traversal returned the four records after two
\* calls, three requests and one exchange.
C15_Witness ==
    /\ pager[1].pc = "returned"
    /\ pager[1].ncalls = 2
    /\ pager[1].nsent = 3
    /\ Len(Events(1, "exchange")) = 1
    /\ pager[1].results = <<<<1, 1>>, <<1, 2>>, <<2, 1>>, <<2, 2>>>>

\* C16: against a server whose pages end (has-more is answered below
\* MaxPages pages only, each cursor leads to the next page), a traversal
\* makes no more calls than the server has pages and ends, by returning or
\* by raising.
C16_PagerTerminates ==
    /\ [](\A t \in Threads : pager[t].ncalls <= MaxPages)
    /\ \A t \in Threads :
         (pager[t].pc \in {"loop", "waiting"})
           ~> (pager[t].pc \in {"returned", "raised"})

\* C16 witness: the traversal returned after as many calls as the server has
\* pages.
C16_Witness ==
    /\ pager[1].pc = "returned"
    /\ pager[1].ncalls = MaxPages
    /\ Len(pager[1].served) = MaxPages

\* C17: a call of the traversal, and every request it sends, carries the
\* page size the traversal was started with, and as cursor that of the
\* response got last (none for the first call); the page size never changes
\* during a traversal.
C17_CursorOfPrecedingPage ==
    /\ [](\A t \in Threads :
            LET p == pager[t]
                n == Len(p.served)
                cursor == IF n = 0 THEN 0 ELSE p.served[n].endCursor
            IN  p.pc = "waiting"
                => /\ p.params.pageSize \in PageSizes
                   /\ log[t][1].req.params
                        = [pageSize |-> p.params.pageSize, pageCursor |-> cursor]
                   /\ \A i \in 1..Len(log[t]) :
                        log[t][i].ev = "send"
                          => log[t][i].params = log[t][1].req.params)
    /\ [][\A t \in Threads :
            pager[t].pc # "idle"
              => pager[t].params.pageSize' = pager[t].params.pageSize]_vars

\* C17 witness: the third call of a traversal started with the default page
\* size has sent its request, with the cursor of the second page.
C17_Witness ==
    /\ pager[1].pc = "waiting"
    /\ Len(pager[1].served) = 2
    /\ pager[1].served[2].endCursor = 2
    /\ \E i \in 1..Len(log[1]) :
         /\ log[1][i].ev = "send"
         /\ log[1][i].params = [pageSize |-> 100, pageCursor |-> 2]

\* C18: every request of a call was admitted by the limiter just before it
\* was sent, at its own nesting depth, so a call never sent more requests
\* than it had admissions; while a retry runs, the call that made it is
\* inside its with block; and the retry, once it starts to acquire its
\* slot, is admitted and sent.
C18_RetryAcquiresOwnSlot ==
    /\ [](\A t \in Threads :
            /\ Len(Events(t, "send")) <= Len(Events(t, "admit"))
            /\ \A i \in 1..Len(log[t]) :
                 log[t][i].ev = "send"
                   => (log[t][i - 1].ev = "admit"
                       /\ log[t][i - 1].depth = log[t][i].depth)
            /\ \A d \in 1..(Depth(t) - 1) : stack[t][d].pc = "retry")
    /\ (Depth(1) = 2 /\ Top(1).pc \in {"enter", "sleep"})
         ~> (Depth(1) = 2 /\ Top(1).pc = "wait")

\* C18 witness: a retry found the quota used up while the call that made it
\* was inside its with block, waited, was admitted and sent its request.
C18_Witness ==
    /\ Depth(1) = 2
    /\ stack[1][1].pc = "retry"
    /\ Top(1).pc = "wait"
    /\ \E i \in 1..Len(log[1]) :
         /\ log[1][i].ev = "admit"
         /\ log[1][i].depth = 2
         /\ log[1][i].waited

\* The call of caller t has made a token exchange that failed.
ExchangeFailed(t) ==
    \E i \in 1..Len(log[t]) :
      log[t][i].ev = "exchange" /\ log[t][i].result.kind = "error"

\* C19: after a token exchange that failed the call only unwinds with the
\* failure of the exchange: no request is sent, no other exchange made; and
\* no step of a call whose exchange has failed, the exchange included,
\* changes the stored token or the headers.
C19_FailedExchangeSurfaces ==
    /\ [](\A t \in Threads :
            \A i \in 1..Len(log[t]) :
              (log[t][i].ev = "exchange" /\ log[t][i].result.kind = "error")
                => OnlyUnwinds(t, i, log[t][i].result))
    /\ [][\A t \in Threads :
            (Depth(t) > 0 /\ ExchangeFailed(t)')
              => (api_key' = api_key /\ headers' = headers)]_vars

\* C19 witness: a request was answered 401, the token endpoint answered the
\* exchange with 401, and the caller got that HTTPError after one request,
\* the token and the header being those of the construction.
C19_Witness ==
    /\ Finished(1)
    /\ Len(Events(1, "send")) = 1
    /\ Len(Events(1, "exchange")) = 1
    /\ Events(1, "exchange")[1].answer = [status |-> 401, hasToken |-> FALSE]
    /\ outcome[1] = Error("HTTPError", 401, ErrContent)
    /\ api_key = 0
    /\ headers.Authorization = Bearer(0)

\* A refresh is in progress: some call is between its 401 and the end of
\* api.py:68.
RefreshInProgress ==
    \E t \in Threads :
      \E d \in 1..Depth(t) :
        stack[t][d].pc \in {"refresh", "assign", "sethdr", "store"}

\* C20: whenever no refresh is in progress, the Authorization header is
\* Bearer <the stored api_key>.
C20_HeaderMatchesKey ==
    ~RefreshInProgress => headers.Authorization = Bearer(api_key)

====
